---- MODULE Spec2Model ----
(***************************************************************************)
(* Model of the two bots of mtdickey/twitterbots:                          *)
(*   DMV_COVID19/tweet_updates.py  (RonaTweeter, main)                     *)
(*   SunsetWxBot/tweet_updates.py  (SunTweeter, main)                      *)
(* Each script is run again and again (by a scheduler outside the          *)
(* repository); a run is a module load followed by main().  The log files  *)
(* on disk are the only state that survives a run.  The variable `bot`     *)
(* says which of the two scripts a behaviour is about.                     *)
(***************************************************************************)
EXTENDS Integers, Sequences, FiniteSets, TLC

\* ------------------------------------------------------------------ bounds
\* Number of runs of a script in a behaviour.
MaxRuns == 2
\* Dates are day numbers after 2020-03-09 (the filter of tidy_timeseries):
\* the fetched CSV has the date columns 1..n, n <= MaxDate.
MaxDate == 3
\* Cumulative counts in the fetched CSV are 0..MaxCount.
MaxCount == 1
\* How many of the individual states of STATES the model runs (then 'All').
NumStates == 1
\* Number of entries of tweet_config.LOCATIONS of the sunset bot.
NumCities == 2
\* Calendar days on which the sunset bot runs are 1..MaxDay.
MaxDay == 2
\* Calls of update_log_record for one record, when its arithmetic is run on
\* its own.
MaxCalls == 4

\* ------------------------------------------------------------ common values
\* pandas NaT / NaN: every ordered comparison with it is False.
\* (dates are >= 0 and daily differences are -MaxCount..MaxCount)
NaT == 0 - 1
NaN == 0 - (MaxCount + 1)
\* Python's None, for the values that are otherwise sequences or records
None == <<>>

Max(S) == CHOOSE x \in S : \A y \in S : y <= x

\* a > b as pandas evaluates it on dates that may be NaT
DateGreater(a, b) == IF a = NaT \/ b = NaT THEN FALSE ELSE a > b

VARIABLES
    bot,              \* "covid" or "sun": the script this behaviour runs
    pc,               \* position of the process: idle, loop, publish, aborted
    runs,             \* runs started so far
    \* --- DMV_COVID19
    hist_file,        \* log/DMV_COVID19_full_tweet_log.csv, a sequence of rows
    DF_DICT,          \* series -> fetched frame (module level, per run)
    TWEET_HISTORY_DF, \* the log as read at module load
    idx,              \* position of main's loop over (series, loc)
    log_df,           \* MyRonaTweeter.log_df of the current item
    plot,             \* (plot_filename, status) of the current item
    logs,             \* main's list `logs`
    sent,             \* items whose post was published in this run
    tweets,           \* every post published so far, by (series, loc, newest)
    abort_at,         \* where the last run raised ("" if it did not)
    \* --- SunsetWxBot
    sun_file,         \* log/SunsetWx_full_tweet_log.csv
    SUN_HISTORY_DF,   \* the sunset script's TWEET_HISTORY_DF, read at load
    sun_log_df,       \* main's log_df (a copy of the file, mutated in place)
    sun_type,         \* 'sunrise' or 'sunset', chosen by the hour
    today,            \* the clock, a day number, as the script last read it
    sun_idx,          \* position of main's loop over LOCATIONS
    sun_tweets,       \* posts published so far, by (city, type, day)
    sun_last,         \* the last send_tweet call (city 0: none yet)
    sun_scores        \* history: per log index, the exact sum of the scores that
                      \* update_log_record was called with, for the records
                      \* of main's frame (mem) and of the log file (file)

covidVars == <<hist_file, DF_DICT, TWEET_HISTORY_DF, idx, log_df, plot, logs,
               sent, tweets>>
sunVars == <<sun_file, SUN_HISTORY_DF, sun_log_df, sun_type, today, sun_idx,
             sun_tweets, sun_last, sun_scores>>
vars == <<bot, pc, runs, abort_at, covidVars, sunVars>>

\* =================================================== DMV_COVID19 ==========
\* DF_DICT.keys(), in insertion order
SeriesKeys == <<"Confirmed", "Deaths">>
\* the individual states of STATES, in insertion order
StateAbbrs == <<"DC", "MD", "VA">>
\* STATES.keys(): the modelled individual states, then 'All'
STATES == SubSeq(StateAbbrs, 1, NumStates) \o <<"All">>

SeqToSet(s) == {s[i] : i \in DOMAIN s}
ModelStates == SeqToSet(SubSeq(StateAbbrs, 1, NumStates))

\* main's nested loop, flattened: item i is (series, loc)
Items ==
    [i \in 1..(Len(SeriesKeys) * Len(STATES)) |->
        [series |-> SeriesKeys[((i - 1) \div Len(STATES)) + 1],
         loc    |-> STATES[((i - 1) % Len(STATES)) + 1]]]
NItems == Len(Items)

\* A fetched frame that parses: per state the cumulative counts of the date
\* columns 1..n (one row per state: the per-county rows are already summed).
Frames ==
    {[columns_ok |-> TRUE, counts |-> c] :
        c \in UNION {[ModelStates -> [1..n -> 0..MaxCount]] : n \in 1..MaxDate}}
\* A response that read_csv parses into a frame without the expected columns.
Malformed == [columns_ok |-> FALSE, counts |-> <<>>]

\* the date columns of a frame
FrameDates(df) == DOMAIN df.counts[CHOOSE s \in ModelStates : TRUE]

\* the states of a frame in groupby('State') order, i.e. sorted
StateOrder(S) ==
    LET F[k \in 0..Len(StateAbbrs)] ==
            IF k = 0 THEN <<>>
            ELSE IF StateAbbrs[k] \in S THEN Append(F[k - 1], StateAbbrs[k])
                 ELSE F[k - 1]
    IN F[Len(StateAbbrs)]

\* tidy_timeseries: subset to the state(s), melt the date columns (column by
\* column, the states in groupby order inside a column), keep Date > 3/9, then
\* new = value - value.shift()  (NaN in the first row).
tidy_timeseries(data, state) ==
    LET keep == IF state /= "All" THEN {state} ELSE ModelStates
        sts  == StateOrder(keep)
        n    == Cardinality(FrameDates(data))
        k    == Len(sts)
        melt == [r \in 1..(n * k) |->
                    [State |-> sts[((r - 1) % k) + 1],
                     Date  |-> ((r - 1) \div k) + 1,
                     value |-> data.counts[sts[((r - 1) % k) + 1]][((r - 1) \div k) + 1]]]
    IN [r \in 1..(n * k) |->
            [State |-> melt[r].State,
             Date  |-> melt[r].Date,
             value |-> melt[r].value,
             new   |-> IF r = 1 THEN NaN
                       ELSE melt[r].value - melt[r - 1].value]]

\* df['Date'].max(): NaT on an empty frame
DateMax(tidy) ==
    IF tidy = <<>> THEN NaT ELSE Max({tidy[r].Date : r \in DOMAIN tidy})

\* tidy_data[tidy_data['new'] >= 0]  (NaN >= 0 is False)
NonNegative(tidy) ==
    SelectSeq(tidy, LAMBDA row : row.new /= NaN /\ row.new >= 0)

\* TWEET_HISTORY_DF[location == state]['data_date'].max(): NaT when the log
\* has no row of the state
max_dt_state_history(history, state) ==
    LET ds == {history[i].data_date :
                  i \in {j \in DOMAIN history : history[j].location = state}}
    IN IF ds = {} THEN NaT ELSE Max(ds)

\* The guard of line 279 with >= for >: a date equal to the stored one passes.
NewDateForState_NotStrict(tidy, history, state) ==
    LET a == DateMax(tidy)
        b == max_dt_state_history(history, state)
    IN IF a = NaT \/ b = NaT THEN FALSE ELSE a >= b

\* line 279: is there a new date in the data for that state
NewDateForState(tidy, history, state) ==
    DateGreater(DateMax(tidy), max_dt_state_history(history, state))

\* new_tweet_log: one row appended to the tweeter's log_df
new_tweet_log(old_log, current_date, location, series, tweet_type) ==
    LET tweets_sent == [location   |-> location,
                        data_date  |-> current_date,
                        series     |-> series,
                        tweet_type |-> tweet_type]
    IN IF old_log /= None THEN Append(old_log, tweets_sent)
       ELSE <<tweets_sent>>

\* new_case_curve, lines 222 and 244: data['Date'].max() of the non-negative
\* days, the date the plot, the status and the log carry.  On an empty
\* selection it is NaT, and NaT.strftime raises ValueError.
new_case_curve_date(tidy) == DateMax(NonNegative(tidy))

\* plot_timeseries: the date the plot, the status and the log carry
plot_timeseries_date(tidy) == DateMax(tidy)

tweet_type_of(loc) == IF loc = "All" THEN "time_series" ELSE "new_cases"

\* The log files that the model starts from: one row per location, or the
\* same without the row of 'All' (a location that has never been posted).
SeedLog(d) ==
    [i \in 1..Len(STATES) |->
        [location |-> STATES[i], data_date |-> d,
         series |-> "Confirmed", tweet_type |-> tweet_type_of(STATES[i])]]
InitLogs == {SeedLog(0), SubSeq(SeedLog(0), 1, Len(STATES) - 1)}

TweetKeys == {<<s, l, d>> : s \in SeqToSet(SeriesKeys), l \in SeqToSet(STATES),
                            d \in 1..MaxDate}

\* =================================================== SunsetWxBot ==========
\* tweet_config.LOCATIONS.keys(): the cities, here numbered
LOCATIONS == [i \in 1..NumCities |-> i]
SunTypes == {"sunrise", "sunset"}
\* Quality labels of a SunsetWx response (the code tells 'Great' from any
\* other label) and its quality_percent values (at the 25/50/75 limits
\* of update_log_record), which the JSON parser gives as float64.  send_tweet
\* reads the two independently.
Qualities == {"Good", "Great"}

\* ------------------------------------------------------ float64 arithmetic
\* avg_quality_score is a float64 column and lines 121-123 compute in
\* float64.  A finite non-negative number m * 2^e is kept as m and e with m
\* odd; zero is m = 0, e = 0.  A natural number such as m is a sequence of
\* limbs (digits of base 2^LimbBits), the most significant first and not 0.
\* A float64 is such a number whose m has at most 53 bits (the scores are far
\* from the overflow and the subnormal range).
MantissaBits == 53
LimbBits == 15
Base == 2^LimbBits
Zero == [m |-> <<>>, e |-> 0]
Zeros(k) == [i \in 1..k |-> 0]
RECURSIVE StripL(_)
\* without the leading zero limbs
StripL(a) == IF a /= <<>> /\ Head(a) = 0 THEN StripL(Tail(a)) ELSE a
RECURSIVE AddFrom(_, _, _, _)
\* a + b for limbs of equal length, from position i down, with a carry
AddFrom(a, b, i, carry) ==
    IF i = 0 THEN <<carry>>
    ELSE Append(AddFrom(a, b, i - 1, (a[i] + b[i] + carry) \div Base),
                (a[i] + b[i] + carry) % Base)
AddL(a, b) ==
    LET n == IF Len(a) > Len(b) THEN Len(a) ELSE Len(b)
    IN StripL(AddFrom(Zeros(n - Len(a)) \o a, Zeros(n - Len(b)) \o b, n, 0))
RECURSIVE MulFrom(_, _, _, _)
\* a * n for a natural n < Base, from position i down, with a carry
MulFrom(a, n, i, carry) ==
    IF i = 0 THEN <<carry>>
    ELSE Append(MulFrom(a, n, i - 1, (a[i] * n + carry) \div Base),
                (a[i] * n + carry) % Base)
MulSmall(a, n) == StripL(MulFrom(a, n, Len(a), 0))
RECURSIVE DivFrom(_, _, _, _, _)
\* long division of a by k < Base, from position i up: quotient and remainder
DivFrom(a, k, i, r, q) ==
    IF i > Len(a) THEN [q |-> StripL(q), r |-> r]
    ELSE DivFrom(a, k, i + 1, (r * Base + a[i]) % k,
                 Append(q, (r * Base + a[i]) \div k))
\* the number of bits of a limb, and of a natural number
BitLenInt(v) ==
    IF v = 0 THEN 0 ELSE CHOOSE k \in 1..LimbBits : 2^(k - 1) <= v /\ v < 2^k
BitLen(a) == IF a = <<>> THEN 0 ELSE (Len(a) - 1) * LimbBits + BitLenInt(a[1])
\* a * 2^s, and a \div 2^s
ShiftLeft(a, s) == StripL(MulSmall(a, 2^(s % LimbBits)) \o Zeros(s \div LimbBits))
ShiftRight(a, s) ==
    IF Len(a) <= s \div LimbBits THEN <<>>
    ELSE DivFrom(SubSeq(a, 1, Len(a) - s \div LimbBits), 2^(s % LimbBits),
                 1, 0, <<>>).q
\* how many times 2 divides a /= 0
TrailingZeroBits(a) ==
    LET last == CHOOSE i \in 1..Len(a) :
                    a[i] /= 0 /\ \A j \in (i + 1)..Len(a) : a[j] = 0
    IN (Len(a) - last) * LimbBits
          + (CHOOSE k \in 0..(LimbBits - 1) : a[last] % 2^(k + 1) = 2^k)
\* the number a * 2^ex, in the form m odd
Norm(a, ex) ==
    LET t == StripL(a)
    IN IF t = <<>> THEN Zero
       ELSE [m |-> ShiftRight(t, TrailingZeroBits(t)),
             e |-> ex + TrailingZeroBits(t)]
\* the limbs of a natural number, and the natural number of (few) limbs
RECURSIVE NatLimbs(_)
NatLimbs(n) == IF n = 0 THEN <<>> ELSE Append(NatLimbs(n \div Base), n % Base)
RECURSIVE LimbsNat(_)
LimbsNat(a) ==
    IF a = <<>> THEN 0
    ELSE Base * LimbsNat(SubSeq(a, 1, Len(a) - 1)) + a[Len(a)]
\* the limbs of x at the exponent e0 <= x.e
Align(x, e0) == ShiftLeft(x.m, x.e - e0)
\* x + y and x * n (n a natural number) without rounding, and x * 2^k
AddExact(x, y) ==
    LET e0 == IF x.e < y.e THEN x.e ELSE y.e
    IN Norm(AddL(Align(x, e0), Align(y, e0)), e0)
MulExact(x, n) == Norm(MulSmall(x.m, n), x.e)
Shift(x, k) == IF x.m = <<>> THEN Zero ELSE [m |-> x.m, e |-> x.e + k]
\* x <= y
Leq(x, y) ==
    LET e0 == IF x.e < y.e THEN x.e ELSE y.e
        a  == Align(x, e0)
        b  == Align(y, e0)
    IN \/ Len(a) < Len(b)
       \/ /\ Len(a) = Len(b)
          /\ \/ a = b
             \/ \E i \in 1..Len(a) :
                   a[i] < b[i] /\ \A j \in 1..(i - 1) : a[j] = b[j]
\* IEEE 754 round to nearest, ties to even: the float64 nearest to
\* a * 2^ex (+ something below the last bit of a if sticky)
Round53(a, ex, sticky) ==
    LET sig  == StripL(a)
        drop == BitLen(sig) - MantissaBits
        \* the first 54 bits, the 54th is the rounding bit
        head == ShiftRight(sig, drop - 1)
        st   == sticky \/ ShiftLeft(head, drop - 1) /= sig
        keep == ShiftRight(head, 1)
        up   == head[Len(head)] % 2 = 1 /\ (st \/ keep[Len(keep)] % 2 = 1)
    IN IF drop <= 0 THEN Norm(sig, ex)
       ELSE IF up THEN Norm(AddL(keep, <<1>>), ex + drop)
       ELSE Norm(keep, ex + drop)
\* float64 *, + and / of a float64 x with a whole number n (which float64
\* holds exactly) or a float64 y
fmul(x, n) == Round53(MulExact(x, n).m, MulExact(x, n).e, FALSE)
fadd(x, y) == Round53(AddExact(x, y).m, AddExact(x, y).e, FALSE)
\* the quotient is taken to two bits more than a float64 holds or more, and
\* the remainder tells whether anything is below them
fdiv(x, k) ==
    IF x.m = <<>> THEN Zero
    ELSE LET up == MantissaBits + 1 + BitLenInt(k)
             d  == DivFrom(ShiftLeft(x.m, up), k, 1, 0, <<>>)
         IN Round53(d.q, x.e - up, d.r /= 0)
\* the float64 that the decimal n / d of a response is parsed to
Double(n, d) == fdiv(Norm(NatLimbs(n), 0), d)
\* the whole part of x: for a whole number k, x < k iff IntPart(x) < k
IntPart(x) ==
    IF x.e >= 0 THEN LimbsNat(ShiftLeft(x.m, x.e))
    ELSE LimbsNat(ShiftRight(x.m, 0 - x.e))

Scores == {Double(24, 1), Double(25, 1), Double(50, 1), Double(75, 1)}
\* the same, and two values with decimals (quality_percent has two)
MeanScores == Scores \cup {Double(2802, 100), Double(6327, 100)}

\* A log frame: its rows, and the columns that an assignment to a key that
\* is no column has added (the label of the column, and the value it holds in
\* every row).
SunRow(city, type) ==
    [city |-> city, type |-> type, last_run_dt |-> 0,
     n_poor |-> 0, n_fair |-> 0, n_good |-> 0, n_great |-> 0,
     avg_quality_score |-> Zero, n_runs |-> 0]
\* the seed log over the first k cities: a sunrise and a sunset row per city
SunSeedLog(k) ==
    [rows |-> [i \in 1..(2 * k) |->
                  SunRow(((i - 1) \div 2) + 1,
                         IF i % 2 = 1 THEN "sunrise" ELSE "sunset")],
     added_columns |-> {}]
\* a log with a row for every (city, type), or one that lacks the last city
SunInitLogs == {SunSeedLog(NumCities), SunSeedLog(NumCities - 1)}

\* update_log_record, lines 104-105: the positions of the rows of
\* (location, type); the code takes the first and raises IndexError if none
log_indexes(df, location, type) ==
    {i \in DOMAIN df.rows :
        df.rows[i].city = location /\ df.rows[i].type = type}

\* a response whose quality_percent is null (None in send_tweet, line 74):
\* no number
NoScore == [m |-> <<>>, e |-> 0 - 1]

\* update_log_record with a score of None, lines 104-111: last_run_dt is set,
\* then score < 25 raises TypeError and the record keeps the rest
update_log_record_raises(df, location, type, current_date) ==
    LET log_index == CHOOSE i \in log_indexes(df, location, type) :
                         \A j \in log_indexes(df, location, type) : i <= j
    IN [rows |-> [df.rows EXCEPT ![log_index].last_run_dt = current_date],
        added_columns |-> df.added_columns]

\* update_log_record without its last line: last_run_dt is set, n_runs is not.
update_log_record_KeepsNRuns(df, location, type, current_date, score) ==
    LET log_index == CHOOSE i \in log_indexes(df, location, type) :
                         \A j \in log_indexes(df, location, type) : i <= j
    IN [rows |-> [df.rows EXCEPT ![log_index].last_run_dt = current_date],
        added_columns |-> df.added_columns]

\* update_log_record with its last two statements in the other order: n_runs
\* is incremented first and the average is computed from the new n_runs.
update_log_record_RunsFirst(df, location, type, current_date, score) ==
    LET log_index == CHOOSE i \in log_indexes(df, location, type) :
                         \A j \in log_indexes(df, location, type) : i <= j
        r  == df.rows[log_index]
        r1 == [r EXCEPT !.last_run_dt = current_date]
        r2 == IF IntPart(score) < 25 THEN [r1 EXCEPT !.n_poor = r1.n_poor + 1]
              ELSE IF IntPart(score) < 50 THEN [r1 EXCEPT !.n_fair = r1.n_fair + 1]
              ELSE IF IntPart(score) < 75 THEN [r1 EXCEPT !.n_good = r1.n_good + 1]
              ELSE r1
        cols == IF IntPart(score) >= 75
                THEN {c \in df.added_columns : c[1] /= log_index}
                         \cup {<<log_index, r1.n_great + 1>>}
                ELSE df.added_columns
        r3 == [r2 EXCEPT !.n_runs = r2.n_runs + 1]
        avg == fdiv(fadd(fmul(r3.avg_quality_score, r3.n_runs), score),
                    r3.n_runs + 1)
        r4 == [r3 EXCEPT !.avg_quality_score = avg]
    IN [rows |-> [df.rows EXCEPT ![log_index] = r4], added_columns |-> cols]

\* update_log_record, lines 108-124, on a frame that has the row
update_log_record(df, location, type, current_date, score) ==
    LET log_index == CHOOSE i \in log_indexes(df, location, type) :
                         \A j \in log_indexes(df, location, type) : i <= j
        r  == df.rows[log_index]
        r1 == [r EXCEPT !.last_run_dt = current_date]
        \* lines 111-118: the last branch assigns to the key
        \* (log_index, 'n_great') of the frame, not to .loc[...]: a new
        \* column of that label is made and n_great keeps its value
        r2 == IF IntPart(score) < 25 THEN [r1 EXCEPT !.n_poor = r1.n_poor + 1]
              ELSE IF IntPart(score) < 50 THEN [r1 EXCEPT !.n_fair = r1.n_fair + 1]
              ELSE IF IntPart(score) < 75 THEN [r1 EXCEPT !.n_good = r1.n_good + 1]
              ELSE r1
        cols == IF IntPart(score) >= 75
                THEN {c \in df.added_columns : c[1] /= log_index}
                         \cup {<<log_index, r1.n_great + 1>>}
                ELSE df.added_columns
        \* lines 121-123: (avg * n_runs + score) / (n_runs + 1)
        avg == fdiv(fadd(fmul(r2.avg_quality_score, r2.n_runs), score),
                    r2.n_runs + 1)
        r3 == [r2 EXCEPT !.avg_quality_score = avg]
        r4 == [r3 EXCEPT !.n_runs = r3.n_runs + 1]
    IN [rows |-> [df.rows EXCEPT ![log_index] = r4], added_columns |-> cols]

SunTweetKeys == {<<c, t, d>> : c \in 1..NumCities, t \in SunTypes, d \in 1..MaxDay}

\* ================================================================== Init ==
Init ==
    /\ bot \in {"covid", "sun"}
    /\ pc = "idle"
    /\ runs = 0
    /\ abort_at = ""
    /\ hist_file \in IF bot = "covid" THEN InitLogs ELSE {SeedLog(0)}
    /\ DF_DICT = None
    /\ TWEET_HISTORY_DF = None
    /\ idx = 0
    /\ log_df = None
    /\ plot = None
    /\ logs = <<>>
    /\ sent = {}
    /\ tweets = [k \in TweetKeys |-> 0]
    /\ sun_file \in IF bot = "sun" THEN SunInitLogs ELSE {SunSeedLog(0)}
    /\ SUN_HISTORY_DF = None
    /\ sun_log_df = None
    /\ sun_type = ""
    /\ today = 1
    /\ sun_idx = 0
    /\ sun_tweets = [k \in SunTweetKeys |-> 0]
    /\ sun_last = [city |-> 0, type |-> "", quality |-> "", score |-> Zero,
                   returned |-> FALSE]
    /\ sun_scores = [mem  |-> [i \in 1..(2 * NumCities) |-> Zero],
                     file |-> [i \in 1..(2 * NumCities) |-> Zero]]

\* ------------------------------------------------------- DMV_COVID19 steps
\* Module load, lines 29-60: both fetches and the log read succeeded.
CovidLoad ==
    /\ bot = "covid" /\ pc \in {"idle", "aborted"} /\ runs < MaxRuns
    /\ \E c \in Frames \cup {Malformed}, d \in Frames \cup {Malformed} :
          DF_DICT' = [s \in SeqToSet(SeriesKeys) |->
                         IF s = "Confirmed" THEN c ELSE d]
    /\ TWEET_HISTORY_DF' = hist_file
    /\ runs' = runs + 1
    /\ pc' = "loop" /\ idx' = 1
    /\ log_df' = None /\ plot' = None /\ logs' = <<>> /\ sent' = {}
    /\ abort_at' = ""
    /\ UNCHANGED <<bot, hist_file, tweets, sunVars>>

\* Module load: requests.get or read_csv raised (source unavailable).
CovidLoadFail ==
    /\ bot = "covid" /\ pc \in {"idle", "aborted"} /\ runs < MaxRuns
    /\ runs' = runs + 1
    /\ pc' = "aborted" /\ abort_at' = "fetch"
    /\ DF_DICT' = None /\ TWEET_HISTORY_DF' = None /\ idx' = 0
    /\ log_df' = None /\ plot' = None /\ logs' = <<>> /\ sent' = {}
    /\ UNCHANGED <<bot, hist_file, tweets, sunVars>>

\* RonaTweeter(...) on a frame without the expected columns: tidy_timeseries
\* raises and the run ends.
CovidMalformed ==
    /\ bot = "covid" /\ pc = "loop" /\ idx <= NItems
    /\ ~DF_DICT[Items[idx].series].columns_ok
    /\ pc' = "aborted" /\ abort_at' = "tidy_timeseries"
    /\ UNCHANGED <<bot, runs, covidVars, sunVars>>

\* RonaTweeter(...) and send_tweet up to line 279 with no new date: nothing
\* is composed, log_df stays None and main goes on with the next item.
CovidSkip ==
    /\ bot = "covid" /\ pc = "loop" /\ idx <= NItems
    /\ DF_DICT[Items[idx].series].columns_ok
    /\ LET it   == Items[idx]
           tidy == tidy_timeseries(DF_DICT[it.series], it.loc)
       IN ~NewDateForState(tidy, TWEET_HISTORY_DF, it.loc)
    /\ idx' = idx + 1
    /\ UNCHANGED <<bot, pc, runs, abort_at, hist_file, DF_DICT, TWEET_HISTORY_DF,
                   log_df, plot, logs, sent, tweets, sunVars>>

\* RonaTweeter(...) and send_tweet, lines 279-285: there is a new date, the
\* plot and the status are made and new_tweet_log has filled log_df.
CovidCompose ==
    /\ bot = "covid" /\ pc = "loop" /\ idx <= NItems
    /\ DF_DICT[Items[idx].series].columns_ok
    /\ LET it   == Items[idx]
           tidy == tidy_timeseries(DF_DICT[it.series], it.loc)
           tt   == tweet_type_of(it.loc)
           dt   == IF tt = "new_cases" THEN new_case_curve_date(tidy)
                   ELSE plot_timeseries_date(tidy)
       IN /\ NewDateForState(tidy, TWEET_HISTORY_DF, it.loc)
          /\ IF dt = NaT
             THEN /\ pc' = "aborted" /\ abort_at' = "new_case_curve"
                  /\ UNCHANGED <<log_df, plot>>
             ELSE /\ log_df' = new_tweet_log(None, dt, it.loc, it.series, tt)
                  /\ plot' = [series |-> it.series, loc |-> it.loc,
                              update_dt |-> dt, newest |-> DateMax(tidy)]
                  /\ pc' = "publish"
                  /\ UNCHANGED abort_at
    /\ UNCHANGED <<bot, runs, hist_file, DF_DICT, TWEET_HISTORY_DF, idx, logs,
                   sent, tweets, sunVars>>

\* A main that appends the item's rows to the log file right after the post.
CovidPublish_WritesFile ==
    /\ bot = "covid" /\ pc = "publish"
    /\ tweets' = [tweets EXCEPT ![<<plot.series, plot.loc, plot.newest>>] = @ + 1]
    /\ sent' = sent \cup {idx}
    /\ logs' = Append(logs, log_df)
    /\ hist_file' = hist_file \o log_df
    /\ log_df' = None /\ plot' = None
    /\ idx' = idx + 1
    /\ pc' = "loop"
    /\ UNCHANGED <<bot, runs, abort_at, DF_DICT, TWEET_HISTORY_DF, sunVars>>

\* send_tweet, lines 288-290, then main, lines 338-340: the post is published
\* and the item's log_df joins main's list.
CovidPublish ==
    /\ bot = "covid" /\ pc = "publish"
    /\ tweets' = [tweets EXCEPT ![<<plot.series, plot.loc, plot.newest>>] = @ + 1]
    /\ sent' = sent \cup {idx}
    /\ logs' = Append(logs, log_df)
    /\ log_df' = None /\ plot' = None
    /\ idx' = idx + 1
    /\ pc' = "loop"
    /\ UNCHANGED <<bot, runs, abort_at, hist_file, DF_DICT, TWEET_HISTORY_DF,
                   sunVars>>

\* send_tweet, lines 288-290: upload_media or update_status raised.
CovidPublishFail ==
    /\ bot = "covid" /\ pc = "publish"
    /\ pc' = "aborted" /\ abort_at' = "api"
    /\ UNCHANGED <<bot, runs, covidVars, sunVars>>

\* pd.concat(logs): the rows of every item's log_df, in order
Concat(ls) ==
    LET F[k \in 0..Len(ls)] == IF k = 0 THEN <<>> ELSE F[k - 1] \o ls[k]
    IN F[Len(ls)]

\* main, lines 342-348: the loop is over; the log file is rewritten as the
\* history read at load followed by this run's rows, if there are any.  (The
\* same rows also go to a new file log/tweet_log_<time>.csv, which no run
\* reads and which is not part of the state.)
CovidFinish ==
    /\ bot = "covid" /\ pc = "loop" /\ idx = NItems + 1
    /\ hist_file' = IF Len(logs) > 0 THEN TWEET_HISTORY_DF \o Concat(logs)
                    ELSE hist_file
    /\ pc' = "idle"
    /\ UNCHANGED <<bot, runs, abort_at, DF_DICT, TWEET_HISTORY_DF, idx, log_df,
                   plot, logs, sent, tweets, sunVars>>

CovidNext ==
    \/ CovidLoad
    \/ CovidLoadFail
    \/ CovidMalformed
    \/ CovidSkip
    \/ CovidCompose
    \/ CovidPublish
    \/ CovidPublishFail
    \/ CovidFinish

\* ------------------------------------------------------- SunsetWxBot steps
\* Module load, lines 27-36, and main, lines 133-141: the type is chosen by
\* the hour and log_df is a copy of the log read at load.
SunLoad ==
    /\ bot = "sun" /\ pc \in {"idle", "aborted"} /\ runs < MaxRuns
    /\ \E t \in SunTypes : sun_type' = t
    /\ \E d \in today..MaxDay : today' = d
    /\ SUN_HISTORY_DF' = sun_file
    /\ sun_log_df' = sun_file
    /\ runs' = runs + 1
    /\ pc' = "loop" /\ sun_idx' = 1
    /\ abort_at' = ""
    /\ sun_scores' = [sun_scores EXCEPT !.mem = sun_scores.file]
    /\ UNCHANGED <<bot, sun_file, sun_tweets, sun_last, covidVars>>

\* A main that saves the frame when an item raises (as a finally would).
SunFetchFail_SavesLog ==
    /\ bot = "sun" /\ pc = "loop" /\ sun_idx <= NumCities
    /\ pc' = "aborted" /\ abort_at' = "get_quality"
    /\ sun_file' = sun_log_df
    /\ sun_scores' = [sun_scores EXCEPT !.file = sun_scores.mem]
    /\ UNCHANGED <<bot, runs, SUN_HISTORY_DF, sun_log_df, sun_type, today,
                   sun_idx, sun_tweets, sun_last, covidVars>>

\* SunTweeter.__init__, lines 53 and 62: get_quality raised, or the response
\* lacks the fields that are read from it.
SunFetchFail ==
    /\ bot = "sun" /\ pc = "loop" /\ sun_idx <= NumCities
    /\ pc' = "aborted" /\ abort_at' = "get_quality"
    /\ UNCHANGED <<bot, runs, sunVars, covidVars>>

\* The last send_tweet call: whose it was, the forecast it read, and whether
\* it returned.
SunCall(loc, quality, score, returned) ==
    [city |-> loc, type |-> sun_type, quality |-> quality, score |-> score,
     returned |-> returned]

\* Line 77 with a wider test: a 'Good' forecast is posted too.
IsGreat_OrGood(quality) == quality \in {"Good", "Great"}

\* send_tweet, line 77: is the forecast worth a post
IsGreat(quality) == quality = "Great"

\* send_tweet, lines 77-87, when update_status returns: the posts afterwards
Posted(posts, loc, type, day, quality) ==
    IF IsGreat(quality) THEN [posts EXCEPT ![<<loc, type, day>>] = @ + 1]
    ELSE posts

\* SunTweeter(loc, type, log_df) and send_tweet, all of it: the post for a
\* 'Great' forecast, then update_log_record; main keeps the frame.
\* the history after update_log_record was called with the score
Scored(sums, df, location, type, score) ==
    LET log_index == CHOOSE i \in log_indexes(df, location, type) :
                         \A j \in log_indexes(df, location, type) : i <= j
    IN [sums EXCEPT !.mem[log_index] = AddExact(@, score)]

\* The clock is read in every call (line 90, after the post of line 87), so
\* the post is of a day post_day that is not before the last reading, and the
\* record gets a day that is not before post_day.
SunSendTweet ==
    /\ bot = "sun" /\ pc = "loop" /\ sun_idx <= NumCities
    /\ \E quality \in Qualities, score \in Scores :
       \E post_day \in today..MaxDay : \E current_date \in post_day..MaxDay :
         LET loc == LOCATIONS[sun_idx]
         IN /\ log_indexes(sun_log_df, loc, sun_type) /= {}
            /\ sun_tweets' = Posted(sun_tweets, loc, sun_type, post_day, quality)
            /\ today' = current_date
            /\ sun_log_df' = update_log_record(sun_log_df, loc, sun_type,
                                               current_date, score)
            /\ sun_last' = SunCall(loc, quality, score, TRUE)
            /\ sun_scores' = Scored(sun_scores, sun_log_df, loc, sun_type, score)
    /\ sun_idx' = sun_idx + 1
    /\ UNCHANGED <<bot, pc, runs, abort_at, sun_file, SUN_HISTORY_DF, sun_type,
                   covidVars>>

\* send_tweet on a response whose quality_percent is null: the post of a
\* 'Great' forecast is published (line 87), update_log_record sets
\* last_run_dt (line 108) and raises TypeError at line 111; main's frame keeps
\* the record as it is then, and the file is not written.
SunNullScore ==
    /\ bot = "sun" /\ pc = "loop" /\ sun_idx <= NumCities
    /\ \E quality \in Qualities :
       \E post_day \in today..MaxDay : \E current_date \in post_day..MaxDay :
         LET loc == LOCATIONS[sun_idx]
         IN /\ log_indexes(sun_log_df, loc, sun_type) /= {}
            /\ sun_tweets' = Posted(sun_tweets, loc, sun_type, post_day, quality)
            /\ today' = current_date
            /\ sun_log_df' = update_log_record_raises(sun_log_df, loc, sun_type,
                                                      current_date)
            /\ sun_last' = SunCall(loc, quality, NoScore, FALSE)
    /\ pc' = "aborted" /\ abort_at' = "quality_percent"
    /\ UNCHANGED <<bot, runs, sun_file, SUN_HISTORY_DF, sun_type, sun_idx,
                   sun_scores, covidVars>>

\* send_tweet, line 87: update_status raised; line 90 is not reached.
SunTweetFail ==
    /\ bot = "sun" /\ pc = "loop" /\ sun_idx <= NumCities
    /\ \E quality \in Qualities, score \in Scores \cup {NoScore} :
          /\ IsGreat(quality)
          /\ sun_last' = SunCall(LOCATIONS[sun_idx], quality, score, FALSE)
    /\ pc' = "aborted" /\ abort_at' = "api"
    /\ UNCHANGED <<bot, runs, sun_file, SUN_HISTORY_DF, sun_log_df, sun_type,
                   today, sun_idx, sun_tweets, sun_scores, covidVars>>

\* send_tweet on a log without a row of (location, type): the post of a
\* 'Great' forecast is published, then update_log_record raises IndexError.
SunNoRecord ==
    /\ bot = "sun" /\ pc = "loop" /\ sun_idx <= NumCities
    /\ \E quality \in Qualities, score \in Scores \cup {NoScore} :
       \E post_day \in today..MaxDay : \E current_date \in post_day..MaxDay :
         LET loc == LOCATIONS[sun_idx]
         IN /\ log_indexes(sun_log_df, loc, sun_type) = {}
            /\ sun_tweets' = Posted(sun_tweets, loc, sun_type, post_day, quality)
            /\ today' = current_date
            /\ sun_last' = SunCall(loc, quality, score, FALSE)
    /\ pc' = "aborted" /\ abort_at' = "update_log_record"
    /\ UNCHANGED <<bot, runs, sun_file, SUN_HISTORY_DF, sun_log_df, sun_type,
                   sun_idx, sun_scores, covidVars>>

\* main, lines 151-153: the loop is over and the log file is overwritten.
SunFinish ==
    /\ bot = "sun" /\ pc = "loop" /\ sun_idx = NumCities + 1
    /\ sun_file' = sun_log_df
    /\ pc' = "idle"
    /\ sun_scores' = [sun_scores EXCEPT !.file = sun_scores.mem]
    /\ UNCHANGED <<bot, runs, abort_at, SUN_HISTORY_DF, sun_log_df, sun_type,
                   today, sun_idx, sun_tweets, sun_last, covidVars>>

SunNext ==
    \/ SunLoad
    \/ SunFetchFail
    \/ SunSendTweet
    \/ SunNullScore
    \/ SunTweetFail
    \/ SunNoRecord
    \/ SunFinish

Next == CovidNext \/ SunNext

Spec == Init /\ [][Next]_vars

\* ------------------------------------- update_log_record, run on its own
\* The arithmetic of update_log_record: a frame with the seed records of one
\* city, and up to MaxCalls calls for its sunrise record with scores of
\* MeanScores, one after the other.
MeanInit ==
    /\ bot = "sun"
    /\ pc = "calls"
    /\ runs = 0
    /\ abort_at = ""
    /\ hist_file = SeedLog(0)
    /\ DF_DICT = None
    /\ TWEET_HISTORY_DF = None
    /\ idx = 0
    /\ log_df = None
    /\ plot = None
    /\ logs = <<>>
    /\ sent = {}
    /\ tweets = [k \in TweetKeys |-> 0]
    /\ sun_file = SunSeedLog(1)
    /\ SUN_HISTORY_DF = SunSeedLog(1)
    /\ sun_log_df = SunSeedLog(1)
    /\ sun_type = "sunrise"
    /\ today = 1
    /\ sun_idx = 1
    /\ sun_tweets = [k \in SunTweetKeys |-> 0]
    /\ sun_last = [city |-> 0, type |-> "", quality |-> "", score |-> Zero,
                   returned |-> FALSE]
    /\ sun_scores = [mem  |-> [i \in 1..(2 * NumCities) |-> Zero],
                     file |-> [i \in 1..(2 * NumCities) |-> Zero]]

\* one call update_log_record(current_date, score)
MeanCall ==
    /\ bot = "sun" /\ pc = "calls"
    /\ \A i \in log_indexes(sun_log_df, LOCATIONS[1], sun_type) :
          sun_log_df.rows[i].n_runs < MaxCalls
    /\ \E score \in MeanScores :
          /\ sun_log_df' = update_log_record(sun_log_df, LOCATIONS[1], sun_type,
                                             today, score)
          /\ sun_scores' = Scored(sun_scores, sun_log_df, LOCATIONS[1],
                                  sun_type, score)
    /\ UNCHANGED <<bot, pc, runs, abort_at, sun_file, SUN_HISTORY_DF, sun_type,
                   today, sun_idx, sun_tweets, sun_last, covidVars>>

MeanNext == MeanCall

SpecMean == MeanInit /\ [][MeanNext]_vars

\* ================================================================ claims ==
\* What the claims speak of, read off the state of a run.

\* the newest date of the freshly fetched series
FetchedNewest(series) == Max(FrameDates(DF_DICT[series]))
\* the daily increase on the newest fetched date of (series, state)
NewestIncrease(series, state) ==
    LET c == DF_DICT[series].counts[state]
        n == FetchedNewest(series)
    IN IF n = 1 THEN NaN ELSE c[n] - c[n - 1]
\* the dates stored in a log for a location, and for a (location, series)
StoredDates(history, loc) ==
    {history[i].data_date : i \in {j \in DOMAIN history : history[j].location = loc}}
StoredKeyDates(history, loc, series) ==
    {history[i].data_date :
        i \in {j \in DOMAIN history :
                  history[j].location = loc /\ history[j].series = series}}
\* a run of the COVID bot is under way, its data and log loaded
InCovidRun == bot = "covid" /\ runs > 0 /\ abort_at /= "fetch"
\* the items main has dealt with in this run (skipped or published)
Handled == 1..(idx - 1)
\* the rows that this run has made in memory so far
RunRows == SeqToSet(Concat(logs)) \cup SeqToSet(log_df)
RowOf(i) == {r \in RunRows : r.location = Items[i].loc /\ r.series = Items[i].series}

\* C1: across any sequence of runs, aborted ones included, at most one post is
\* published per (location, series_type) and newest date of the fetched series.
C1_AtMostOnePostPerDate == \A k \in TweetKeys : tweets[k] <= 1

\* C2: a post is published and a log row made only if the newest fetched date
\* is strictly greater than the stored last-posted date of the location; with
\* a newest date equal or older nothing is published, no row is made, and the
\* rewritten log file holds no row of that item.
C2_PostOnlyIfNewer ==
    InCovidRun =>
        /\ \A i \in 1..NItems :
              (i \in sent \/ RowOf(i) /= {}) =>
                  /\ StoredDates(TWEET_HISTORY_DF, Items[i].loc) /= {}
                  /\ \A d \in StoredDates(TWEET_HISTORY_DF, Items[i].loc) :
                        FetchedNewest(Items[i].series) > d
        /\ \A i \in Handled :
              (\E d \in StoredDates(TWEET_HISTORY_DF, Items[i].loc) :
                    FetchedNewest(Items[i].series) <= d)
                  => i \notin sent /\ RowOf(i) = {}
        /\ hist_file \in {TWEET_HISTORY_DF, TWEET_HISTORY_DF \o Concat(logs)}
\* a finished run that met an item with a newest date equal to the stored one
\* and one with an older newest date, published for neither, and published
\* another item
C2_Witness ==
    /\ bot = "covid" /\ pc = "idle" /\ runs = 2 /\ abort_at = ""
    /\ \E i, j, k \in 1..NItems :
          /\ FetchedNewest(Items[i].series)
                 = Max(StoredDates(TWEET_HISTORY_DF, Items[i].loc) \cup {0})
          /\ StoredDates(TWEET_HISTORY_DF, Items[i].loc) /= {}
          /\ StoredDates(TWEET_HISTORY_DF, Items[j].loc) /= {}
          /\ FetchedNewest(Items[j].series)
                 < Max(StoredDates(TWEET_HISTORY_DF, Items[j].loc) \cup {0})
          /\ i \notin sent /\ j \notin sent /\ k \in sent
          /\ hist_file = TWEET_HISTORY_DF \o Concat(logs)

\* C3: the guard is keyed by (location, series_type): an item whose series has
\* a newest date greater than every date stored for the same location and the
\* same series is posted, whatever was posted for the other series.
C3_GuardKeyedBySeries ==
    InCovidRun =>
        \A i \in Handled :
            LET ds == StoredKeyDates(TWEET_HISTORY_DF, Items[i].loc, Items[i].series)
            IN (ds /= {} /\ \A d \in ds : FetchedNewest(Items[i].series) > d)
                   => i \in sent

\* the aborts that the data source causes: a fetch that raises, or a response
\* that lacks what the code reads from it
DataAborts == {"fetch", "tidy_timeseries", "get_quality", "quality_percent"}

\* C4 (as stated): when a run aborts on an unavailable or malformed source, no
\* log record has been created or changed, in memory or on disk.
C4_AbortBeforeAnyLogMutation ==
    (pc = "aborted" /\ abort_at \in DataAborts) =>
        /\ bot = "covid" =>
              /\ logs = <<>> /\ log_df = None
              /\ abort_at /= "fetch" => hist_file = TWEET_HISTORY_DF
        /\ bot = "sun" =>
              /\ sun_log_df = SUN_HISTORY_DF
              /\ sun_file = SUN_HISTORY_DF

\* C4 (amended): a run that aborts on an unavailable or malformed source has
\* not written the log file, which is as it was read when the run began, and
\* the failed run is not resumed: the only step after an abort is a new run.
C4_AbortLeavesLogFile ==
    /\ []((pc = "aborted" /\ abort_at \in DataAborts) =>
            /\ (bot = "covid" /\ abort_at /= "fetch") => hist_file = TWEET_HISTORY_DF
            /\ bot = "sun" => sun_file = SUN_HISTORY_DF)
    /\ [][/\ pc' = "aborted" => (hist_file' = hist_file /\ sun_file' = sun_file)
          /\ pc = "aborted" => (runs' = runs + 1 /\ pc' \in {"loop", "aborted"})]_vars
\* a COVID run that aborted on a malformed Deaths frame after the Confirmed
\* items had made log rows in memory
C4_Witness ==
    /\ bot = "covid" /\ pc = "aborted" /\ abort_at = "tidy_timeseries"
    /\ logs /= <<>>
    /\ hist_file = TWEET_HISTORY_DF

\* C5: a new-cases post is published and logged only if the daily increase on
\* the newest fetched date is a number and not negative.
C5_NoPostOnInvalidNewest ==
    InCovidRun =>
        \A i \in 1..NItems :
            (/\ tweet_type_of(Items[i].loc) = "new_cases"
             /\ DF_DICT[Items[i].series].columns_ok
             /\ NewestIncrease(Items[i].series, Items[i].loc) < 0)
                => /\ i \notin sent
                   /\ \A r \in SeqToSet(Concat(logs)) :
                         ~(r.location = Items[i].loc /\ r.series = Items[i].series)

\* C6: after a run that completes, the date stored in the log file for each
\* post of the run is the newest date of the fetched series, so that the guard
\* does not pass for that location on the same data.
C6_LoggedDateIsNewest ==
    (bot = "covid" /\ pc = "idle" /\ runs > 0) =>
        \A i \in sent :
            /\ \E j \in DOMAIN hist_file :
                  /\ j > Len(TWEET_HISTORY_DF)
                  /\ hist_file[j].location = Items[i].loc
                  /\ hist_file[j].series = Items[i].series
                  /\ hist_file[j].data_date = FetchedNewest(Items[i].series)
            /\ \E d \in StoredDates(hist_file, Items[i].loc) :
                  FetchedNewest(Items[i].series) <= d

\* C7: over any sequence of runs of the sunset bot at most one post is
\* published per (location, type) and calendar day.
C7_OnePostPerDay == \A k \in SunTweetKeys : sun_tweets[k] <= 1

\* C8 (as stated): the log record of an item exists only after the item's post
\* has been published, and the log file is written only after every publish
\* step of the run.
C8_LogAfterPublish ==
    /\ InCovidRun => \A i \in 1..NItems : RowOf(i) /= {} => i \in sent
    /\ (bot = "covid" /\ pc \in {"loop", "publish"}) => hist_file = TWEET_HISTORY_DF
    /\ (bot = "sun" /\ pc = "loop") => sun_file = SUN_HISTORY_DF

\* C8 (amended): in the COVID bot the log record of an item is made in memory
\* before the item's post is published and joins main's list after it; in the
\* sunset bot a call changes its record only after its publish step (a call
\* whose publish raises leaves main's frame as it was, and a call that changes
\* the frame for a 'Great' forecast has published the post); in both bots the
\* log file is written only after every publish step of the run.
C8_RecordPublishFile ==
    /\ [](/\ (InCovidRun /\ pc = "publish") =>
                /\ log_df /= None /\ idx \notin sent
                /\ RowOf(idx) = SeqToSet(log_df)
          /\ InCovidRun =>
                /\ \A i \in 1..NItems :
                      (i \in sent) <=>
                          (\E r \in SeqToSet(Concat(logs)) :
                              r.location = Items[i].loc /\ r.series = Items[i].series)
                /\ Len(logs) = Cardinality(sent)
          /\ (bot = "covid" /\ pc \in {"loop", "publish"}) => hist_file = TWEET_HISTORY_DF
          /\ (bot = "covid" /\ pc = "idle" /\ runs > 0) =>
                hist_file = TWEET_HISTORY_DF \o Concat(logs)
          /\ (bot = "sun" /\ pc = "loop") => sun_file = SUN_HISTORY_DF
          /\ (bot = "sun" /\ pc = "idle" /\ runs > 0) => sun_file = sun_log_df)
    /\ [][(bot = "sun" /\ pc = "loop") =>
            /\ (pc' = "aborted" /\ abort_at' = "api") => sun_log_df' = sun_log_df
            /\ (sun_log_df' /= sun_log_df /\ sun_last'.quality = "Great") =>
                  \E k \in SunTweetKeys :
                      /\ k[1] = sun_last'.city /\ k[2] = sun_type
                      /\ sun_tweets'[k] = sun_tweets[k] + 1]_vars
\* the second item of a run is composed and logged in memory, not yet
\* published, while the first is published and in main's list
C8_Witness ==
    /\ bot = "covid" /\ pc = "publish" /\ idx > 1
    /\ log_df /= None /\ idx \notin sent
    /\ sent /= {} /\ logs /= <<>>

\* the row of (city, type) that update_log_record works on
SunRowOf(df, city, type) ==
    df.rows[CHOOSE i \in log_indexes(df, city, type) :
                \A j \in log_indexes(df, city, type) : i <= j]

\* C9: send_tweet publishes a post if and only if the quality label of the
\* forecast is 'Great': a step that publishes has read 'Great', a call that
\* read 'Great' and whose update_status returned has published one post, and a
\* call that read another label has published none.
C9_TweetIffGreat ==
    [][bot = "sun" =>
        /\ sun_tweets' /= sun_tweets =>
              /\ sun_last'.quality = "Great"
              /\ \E post_day \in today..today' :
                    sun_tweets' =
                       [sun_tweets EXCEPT ![<<sun_last'.city, sun_type, post_day>>] = @ + 1]
        /\ (pc = "loop" /\ sun_idx' = sun_idx + 1 /\ sun_last'.quality = "Great")
              => sun_tweets' /= sun_tweets
        /\ (sun_last' /= sun_last /\ sun_last'.quality /= "Great")
              => sun_tweets' = sun_tweets]_vars
\* a call that read 'Great' has returned and its post is published
C9_Witness ==
    /\ bot = "sun" /\ pc = "loop" /\ sun_last.returned
    /\ sun_last.quality = "Great"
    /\ sun_tweets[<<sun_last.city, sun_last.type, today>>] = 1

\* a step that is a call of send_tweet: one that returns, or one that raises
\* in update_status or in update_log_record
SendTweetReturns == bot = "sun" /\ pc = "loop" /\ sun_idx' = sun_idx + 1
SendTweetRaises ==
    /\ bot = "sun" /\ pc = "loop" /\ pc' = "aborted"
    /\ abort_at' \in {"api", "quality_percent", "update_log_record"}

SunFrames == {sun_file} \cup (IF sun_log_df = None THEN {} ELSE {sun_log_df})

\* C11: every call of update_log_record adds 1 to exactly one quality counter
\* of the record, chosen by the score, so in every record the four counters
\* sum to n_runs: n_poor + n_fair + n_good + n_great = n_runs (the seed
\* records start at 0 = 0).
C11_CountersSumToRuns ==
    bot = "sun" =>
        \A df \in SunFrames : \A i \in DOMAIN df.rows :
            df.rows[i].n_poor + df.rows[i].n_fair + df.rows[i].n_good
                + df.rows[i].n_great = df.rows[i].n_runs

\* the frames with the history of the scores of their records
RunningSums ==
    {<<sun_file, sun_scores.file>>}
        \cup (IF sun_log_df = None THEN {} ELSE {<<sun_log_df, sun_scores.mem>>})
\* the float64 nearest to x
Nearest(x) == Round53(x.m, x.e, FALSE)
\* p and s differ by at most n * 2^-51 times themselves
Close(p, s, n) ==
    /\ Leq(p, AddExact(s, Shift(MulExact(s, n), 0 - 51)))
    /\ Leq(s, AddExact(p, Shift(MulExact(p, n), 0 - 51)))

====
